---- MODULE Spec2Model ----
(***************************************************************************)
(* Gmail MCP server: the tool layer (gmail_mcp_server.py), the mail client *)
(* (gmail_operations.py) and the broker authentication (gmail_auth.py).    *)
(*                                                                         *)
(* Python mappings (dict) are records; a key that may be absent is a field *)
(* that may be missing from the record's DOMAIN.  Python None for an       *)
(* optional str parameter is the string None below; None for an object is  *)
(* NoClient / NoService / NoMessage.  A str whose characters the code      *)
(* inspects (the recipient address, subject and body of a message to send) *)
(* is a sequence of one-character strings; a str that is only tested for   *)
(* emptiness, compared or concatenated is a TLA+ string.                   *)
(*                                                                         *)
(* One action is one whole tool invocation.  The remote services (broker,  *)
(* mail API), the file system and the environment variables are the        *)
(* environment: their outcomes are drawn with \E in each action.           *)
(* Only the specification of concurrent invocations splits a function,     *)
(* get_gmail_client, into the steps between which another invocation can   *)
(* run.                                                                    *)
(***************************************************************************)
EXTENDS Integers, Sequences, FiniteSets, TLC

VARIABLES
    env,             \* the process environment (os.getenv), fixed at start
    gmail_client,    \* global _gmail_client
    gmail_service,   \* global _gmail_service
    call,            \* the last invocation: tool name, whether validation passed
    resp,            \* the mapping the last invocation returned
    net,             \* network / library events of the last invocation, in order
    arg,             \* input of the pure-function specifications
    out,             \* output of the pure-function specifications
    frames           \* concurrent calls of get_gmail_client: position and locals

vars == <<env, gmail_client, gmail_service, call, resp, net, arg, out, frames>>

(***************************************************************************)
(* Bounds                                                                  *)
(***************************************************************************)
MaxList == 1       \* message refs returned by one remote list call
MaxIds == 2        \* IDs in one batch request
MaxParts == 2      \* children of one MIME node
MaxEmailLen == 4   \* characters of an address handed to the email validation
MaxInvocations == 2   \* tool invocations running get_gmail_client concurrently

None == "None"
NoClient == [set |-> FALSE]
NoService == [set |-> FALSE]
NoMessage == [absent |-> TRUE]   \* None where a message / send result is expected
Idle == [tool |-> "none"]

Min(a, b) == IF a < b THEN a ELSE b

SeqsUpTo(S, n) == UNION { [1..k -> S] : k \in 0..n }

RECURSIVE Cat(_)
\* concatenation of a sequence of sequences
Cat(ss) == IF ss = << >> THEN << >> ELSE Head(ss) \o Cat(Tail(ss))

RECURSIVE Join(_)
\* ' '.join(parts)
Join(parts) ==
    IF parts = << >> THEN ""
    ELSE IF Len(parts) = 1 THEN parts[1]
    ELSE parts[1] \o " " \o Join(Tail(parts))

\* list_messages(self, query='', max_results=10)
DefaultMaxResults == 10

(***************************************************************************)
(* gmail_auth.py                                                           *)
(***************************************************************************)
\* get_variable: raises ValueError when the variable is unset or empty
get_variable(e, key) == IF e[key] THEN [raised |-> FALSE]
                        ELSE [raised |-> TRUE,
                              err |-> "Environment variable " \o key \o " not found. Please check your .env file."]

\* get_connection_credentials: two get_variable calls, then one GET to the
\* broker; raise_for_status and transport errors raise.  b is the broker's
\* answer to this request.
get_connection_credentials(e, b) ==
    IF get_variable(e, "NANGO_NANGO_BASE_URL").raised
    THEN [raised |-> TRUE, err |-> get_variable(e, "NANGO_NANGO_BASE_URL").err, net |-> << >>]
    ELSE IF get_variable(e, "NANGO_NANGO_SECRET_KEY").raised
    THEN [raised |-> TRUE, err |-> get_variable(e, "NANGO_NANGO_SECRET_KEY").err, net |-> << >>]
    ELSE IF b.status # "ok"
    THEN [raised |-> TRUE, err |-> b.status, net |-> << [op |-> "broker", ok |-> FALSE] >>]
    ELSE [raised |-> FALSE, body |-> b.body, net |-> << [op |-> "broker", ok |-> TRUE] >>]

\* Python truthiness of a token value: None and "" are falsy
Truthy(v) == v # None /\ v # ""

\* dict.get(key): None when the key is absent
Get(d, key) == IF key \in DOMAIN d THEN d[key] ELSE None

\* authenticate_gmail_with_nango_v2, lines 112-126: the if / elif / elif over
\* the keys of the broker response
SelectTokens(r) ==
    IF "access_token" \in DOMAIN r
    THEN [access_token |-> r.access_token, refresh_token |-> Get(r, "refresh_token")]
    ELSE IF "credentials" \in DOMAIN r
    THEN [access_token |-> Get(r.credentials, "access_token"),
          refresh_token |-> Get(r.credentials, "refresh_token")]
    ELSE IF "token" \in DOMAIN r
    THEN [access_token |-> r.token, refresh_token |-> Get(r, "refresh_token")]
    ELSE [access_token |-> None, refresh_token |-> None]

\* authenticate_gmail_with_nango_v2.  o is the environment's outcome:
\* o.broker the broker's answer, o.valid whether the token the broker handed
\* out is currently valid (creds.valid), o.build whether build() succeeds.
\* The except block fetches the broker response a second time to print it,
\* swallowing that fetch's own failure, and re-raises.
authenticate_gmail_with_nango_v2(e, o) ==
    LET first == get_connection_credentials(e, o.broker)
        toks == SelectTokens(first.body)
        debug == get_connection_credentials(e, o.broker).net
    IN  IF first.raised
        THEN [raised |-> TRUE, err |-> first.err, net |-> first.net \o debug]
        ELSE IF ~Truthy(toks.access_token)
        THEN [raised |-> TRUE, err |-> "No access token found in Nango response",
              net |-> first.net \o debug]
        ELSE IF ~o.build
        THEN [raised |-> TRUE, err |-> "build failed",
              net |-> first.net \o << [op |-> "build", ok |-> FALSE] >> \o debug]
        ELSE [raised |-> FALSE,
              service |-> [set |-> TRUE,
                           token |-> toks.access_token,
                           refresh_token |-> toks.refresh_token,
                           valid |-> o.valid],
              net |-> first.net \o << [op |-> "build", ok |-> TRUE] >>]

(***************************************************************************)
(* gmail_mcp_server.py: the memoized session                               *)
(***************************************************************************)
\* GmailClient.__init__
GmailClient(service) == [set |-> TRUE, service |-> service]

\* get_gmail_client without the "is None" test: a new session on every call
get_gmail_client_NoMemo(client, service, e, o) ==
    IF ~e["GMAIL_CONNECTION_ID"]
    THEN [raised |-> TRUE, err |-> "GMAIL_CONNECTION_ID environment variable is required",
          client |-> client, service |-> service, net |-> << >>]
    ELSE LET a == authenticate_gmail_with_nango_v2(e, o)
         IN  IF a.raised
             THEN [raised |-> TRUE, err |-> a.err, client |-> client, service |-> service,
                   net |-> a.net]
             ELSE [raised |-> FALSE, client |-> GmailClient(a.service),
                   service |-> a.service, net |-> a.net]

\* get_gmail_client keeping the service in a local: the global is never set
get_gmail_client_LocalService(client, service, e, o) ==
    IF client # NoClient
    THEN [raised |-> FALSE, client |-> client, service |-> service, net |-> << >>]
    ELSE IF ~e["GMAIL_CONNECTION_ID"]
    THEN [raised |-> TRUE, err |-> "GMAIL_CONNECTION_ID environment variable is required",
          client |-> client, service |-> service, net |-> << >>]
    ELSE LET a == authenticate_gmail_with_nango_v2(e, o)
         IN  IF a.raised
             THEN [raised |-> TRUE, err |-> a.err, client |-> client, service |-> service,
                   net |-> a.net]
             ELSE [raised |-> FALSE, client |-> GmailClient(a.service),
                   service |-> service, net |-> a.net]

\* get_gmail_client memoizing a client without a service when setup fails
get_gmail_client_MemoFailed(client, service, e, o) ==
    IF client # NoClient
    THEN [raised |-> FALSE, client |-> client, service |-> service, net |-> << >>]
    ELSE IF ~e["GMAIL_CONNECTION_ID"]
    THEN [raised |-> TRUE, err |-> "GMAIL_CONNECTION_ID environment variable is required",
          client |-> GmailClient(NoService), service |-> service, net |-> << >>]
    ELSE LET a == authenticate_gmail_with_nango_v2(e, o)
         IN  IF a.raised
             THEN [raised |-> TRUE, err |-> a.err, client |-> GmailClient(NoService),
                   service |-> service, net |-> a.net]
             ELSE [raised |-> FALSE, client |-> GmailClient(a.service),
                   service |-> a.service, net |-> a.net]

\* get_gmail_client: the new values of both globals, the client returned or
\* the exception raised, and the events of the initialization
get_gmail_client(client, service, e, o) ==
    IF client # NoClient
    THEN [raised |-> FALSE, client |-> client, service |-> service, net |-> << >>]
    ELSE IF ~e["GMAIL_CONNECTION_ID"]
    THEN [raised |-> TRUE, err |-> "GMAIL_CONNECTION_ID environment variable is required",
          client |-> client, service |-> service, net |-> << >>]
    ELSE LET a == authenticate_gmail_with_nango_v2(e, o)
         IN  IF a.raised
             THEN [raised |-> TRUE, err |-> a.err, client |-> client, service |-> service,
                   net |-> a.net]
             ELSE [raised |-> FALSE, client |-> GmailClient(a.service),
                   service |-> a.service, net |-> a.net]

\* validate_message_id
validate_message_id(message_id) == message_id # None /\ Len(message_id) > 0

RECURSIVE Split(_, _)
\* str.split(sep) of a sequence of characters: the segments between separators
Split(s, sep) ==
    IF \A i \in 1..Len(s) : s[i] # sep
    THEN << s >>
    ELSE LET k == CHOOSE i \in 1..Len(s) : s[i] = sep /\ \A j \in 1..(i - 1) : s[j] # sep
         IN  << SubSeq(s, 1, k - 1) >> \o Split(SubSeq(s, k + 1, Len(s)), sep)

Contains(s, c) == \E i \in 1..Len(s) : s[i] = c

\* validate_email_address: email and '@' in email and '.' in email.split('@')[1]
validate_email_address(email) ==
    /\ email # << >>
    /\ Contains(email, "@")
    /\ Contains(Split(email, "@")[2], ".")

IsSpace(c) == c \in {" ", "\t", "\n"}

RECURSIVE LStrip(_)
LStrip(s) == IF s # << >> /\ IsSpace(Head(s)) THEN LStrip(Tail(s)) ELSE s

RECURSIVE RStrip(_)
RStrip(s) == IF s # << >> /\ IsSpace(s[Len(s)]) THEN RStrip(SubSeq(s, 1, Len(s) - 1)) ELSE s

\* str.strip()
Strip(s) == RStrip(LStrip(s))

\* the failure mapping every tool returns from its except clause and from a
\* failed validation
Failure(msg) == [success |-> FALSE, error |-> msg]

(***************************************************************************)
(* gmail_operations.py: GmailClient                                        *)
(***************************************************************************)
\* base64.urlsafe_b64decode(data).decode('utf-8') on the encodings used below
B64Decode(data) ==
    CASE data = "SGk=" -> "Hi"
      [] data = "Qnll" -> "Bye"
      [] data = "" -> ""

\* 'data' in part.get('body', {})
HasData(part) == "body" \in DOMAIN part /\ "data" \in DOMAIN part.body

RECURSIVE extract_text_from_payload(_)
RECURSIVE ScanParts(_, _, _)
RECURSIVE ScanParts_StopAfterNested(_, _, _)
\* the loop leaving at the first nested part, whatever its text
ScanParts_StopAfterNested(parts, i, body_text) ==
    IF i > Len(parts) THEN body_text
    ELSE IF parts[i].mimeType = "text/plain" /\ HasData(parts[i])
    THEN B64Decode(parts[i].body.data)
    ELSE IF "parts" \in DOMAIN parts[i]
    THEN extract_text_from_payload(parts[i])
    ELSE ScanParts_StopAfterNested(parts, i + 1, body_text)

\* the for loop of extract_text_from_payload over parts[i..], body_text so far
ScanParts(parts, i, body_text) ==
    IF i > Len(parts) THEN body_text
    ELSE IF parts[i].mimeType = "text/plain" /\ HasData(parts[i])
    THEN B64Decode(parts[i].body.data)
    ELSE IF "parts" \in DOMAIN parts[i]
    THEN LET t == extract_text_from_payload(parts[i])
         IN  IF t # "" THEN t ELSE ScanParts(parts, i + 1, t)
    ELSE ScanParts(parts, i + 1, body_text)

extract_text_from_payload(payload) ==
    IF "parts" \in DOMAIN payload
    THEN ScanParts(payload.parts, 1, "")
    ELSE IF payload.mimeType = "text/plain" /\ HasData(payload)
    THEN B64Decode(payload.body.data)
    ELSE ""

\* GmailClient.get_message_body
get_message_body(message) ==
    IF message = NoMessage \/ "payload" \notin DOMAIN message THEN ""
    ELSE extract_text_from_payload(message.payload)

\* GmailClient.list_messages: one remote list call; any exception is printed
\* and an empty list returned.  lo is the remote outcome; the event records
\* how many messages the method returned.
list_messages(query, max_results, lo) ==
    [messages |-> IF lo.ok THEN lo.messages ELSE << >>,
     net |-> << [op |-> "list", q |-> query, maxResults |-> max_results, ok |-> lo.ok,
                 returned |-> IF lo.ok THEN Len(lo.messages) ELSE 0] >>]

\* GmailClient.get_message: one remote get call; any exception is printed and
\* None returned.  go is the remote outcome.
get_message(message_id, go) ==
    [message |-> IF go.ok THEN go.message ELSE NoMessage,
     net |-> << [op |-> "get", id |-> message_id, ok |-> go.ok] >>]

\* search_messages appending the is:unread clause before has:attachment
search_messages_UnreadFirst(sender, subject, after_date, has_attachment, is_unread, lo) ==
    LET p1 == IF Truthy(sender) THEN << "from:" \o sender >> ELSE << >>
        p2 == p1 \o (IF Truthy(subject) THEN << "subject:\"" \o subject \o "\"" >> ELSE << >>)
        p3 == p2 \o (IF Truthy(after_date) THEN << "after:" \o after_date >> ELSE << >>)
        p4 == p3 \o (IF is_unread THEN << "is:unread" >> ELSE << >>)
        query_parts == p4 \o (IF has_attachment THEN << "has:attachment" >> ELSE << >>)
    IN  list_messages(Join(query_parts), DefaultMaxResults, lo)

\* GmailClient.search_messages: the query built from the five parameters,
\* then list_messages(query) with the default max_results
search_messages(sender, subject, after_date, has_attachment, is_unread, lo) ==
    LET p1 == IF Truthy(sender) THEN << "from:" \o sender >> ELSE << >>
        p2 == p1 \o (IF Truthy(subject) THEN << "subject:\"" \o subject \o "\"" >> ELSE << >>)
        p3 == p2 \o (IF Truthy(after_date) THEN << "after:" \o after_date >> ELSE << >>)
        p4 == p3 \o (IF has_attachment THEN << "has:attachment" >> ELSE << >>)
        query_parts == p4 \o (IF is_unread THEN << "is:unread" >> ELSE << >>)
    IN  list_messages(Join(query_parts), DefaultMaxResults, lo)

\* GmailClient.send_message: the MIME message is assembled and one remote send
\* call made; any exception is printed and None returned
send_message(to, subject, body, so) ==
    [result |-> IF so.ok THEN so.message ELSE NoMessage,
     net |-> << [op |-> "send", to |-> to, subject |-> subject, body |-> body, ok |-> so.ok] >>]

\* GmailClient.send_message_with_attachment: the path is tested again and the
\* file read (fo: what the file system answers now) before the remote send
send_message_with_attachment(to, subject, body, file_path, fo, so) ==
    IF ~fo.exists \/ ~fo.readable
    THEN [result |-> NoMessage, net |-> << >>]
    ELSE [result |-> IF so.ok THEN so.message ELSE NoMessage,
          net |-> << [op |-> "send", to |-> to, subject |-> subject, body |-> body,
                      attachment |-> file_path, ok |-> so.ok] >>]

\* GmailClient.mark_as_read: one remote modify call; True, or False on any exception
mark_as_read(message_id, ok) ==
    [result |-> ok, net |-> << [op |-> "modify", id |-> message_id, ok |-> ok] >>]

\* GmailClient.delete_message: one remote delete call; True, or False on any exception
delete_message(message_id, ok) ==
    [result |-> ok, net |-> << [op |-> "delete", id |-> message_id, ok |-> ok] >>]

(***************************************************************************)
(* gmail_mcp_server.py: the tools.  Each operator is one tool function: s  *)
(* is what get_gmail_client does when the tool calls it, the remaining     *)
(* parameters after the tool's own are the remote outcomes.  The result    *)
(* holds the mapping returned (resp), the events (net) and whether the     *)
(* call got past validation (entered), i.e. called get_gmail_client.       *)
(***************************************************************************)
Rejected(msg) == [resp |-> Failure(msg), net |-> << >>, entered |-> FALSE]

\* an except clause that returns the failure without its error field
Raised_NoErrorField(prefix, s) ==
    [resp |-> [success |-> FALSE], net |-> s.net, entered |-> TRUE]

Raised(prefix, s) ==
    [resp |-> Failure(prefix \o ": " \o s.err), net |-> s.net, entered |-> TRUE]

\* the loop "for msg in messages: message = gmail.get_message(msg['id'])":
\* the get_message results, one per listed message; gos[i] is the remote
\* outcome of the i-th call
GetAll(messages, gos) == [i \in 1..Len(messages) |-> get_message(messages[i].id, gos[i])]

\* the summaries appended for the messages that were fetched (the header and
\* snippet fields, copied from the message, are left out)
Detailed(messages, fetched) ==
    Cat([i \in 1..Len(messages) |->
            IF fetched[i].message = NoMessage THEN << >>
            ELSE << [id |-> messages[i].id,
                     labels |-> fetched[i].message.labelIds,
                     is_unread |-> "UNREAD" \in fetched[i].message.labelIds] >>])

\* the same loop in gmail_search_messages, whose summaries carry no labels
DetailedFound(messages, fetched) ==
    Cat([i \in 1..Len(messages) |->
            IF fetched[i].message = NoMessage THEN << >>
            ELSE << [id |-> messages[i].id,
                     is_unread |-> "UNREAD" \in fetched[i].message.labelIds] >>])

\* gmail_list_messages
gmail_list_messages(query, max_results, s, lo, gos) ==
    IF max_results < 1 \/ max_results > 100
    THEN Rejected("max_results must be between 1 and 100")
    ELSE IF s.raised THEN Raised("Failed to list messages", s)
    ELSE LET l == list_messages(query, max_results, lo)
             fetched == GetAll(l.messages, gos)
             detailed_messages == Detailed(l.messages, fetched)
         IN  IF l.messages = << >>
             THEN [resp |-> [success |-> TRUE, count |-> 0, messages |-> << >>,
                             message |-> "No messages found"],
                   net |-> s.net \o l.net, entered |-> TRUE]
             ELSE [resp |-> [success |-> TRUE, count |-> Len(detailed_messages),
                             messages |-> detailed_messages,
                             query_used |-> IF query # "" THEN query ELSE "all messages"],
                   net |-> s.net \o l.net \o Cat([i \in 1..Len(fetched) |-> fetched[i].net]),
                   entered |-> TRUE]

\* gmail_get_message
gmail_get_message(message_id, s, go) ==
    IF ~validate_message_id(message_id)
    THEN Rejected("Invalid message ID provided")
    ELSE IF s.raised THEN Raised("Failed to get message", s)
    ELSE LET g == get_message(message_id, go)
         IN  IF g.message = NoMessage
             THEN [resp |-> Failure("Message " \o message_id \o " not found"),
                   net |-> s.net \o g.net, entered |-> TRUE]
             ELSE [resp |-> [success |-> TRUE,
                             message |-> [id |-> message_id,
                                          body |-> get_message_body(g.message),
                                          labels |-> g.message.labelIds,
                                          is_unread |-> "UNREAD" \in g.message.labelIds]],
                   net |-> s.net \o g.net, entered |-> TRUE]

\* gmail_send_message
gmail_send_message(to, subject, body, s, so) ==
    IF ~validate_email_address(to) THEN Rejected("Invalid recipient email address")
    ELSE IF Strip(subject) = << >> THEN Rejected("Subject cannot be empty")
    ELSE IF Strip(body) = << >> THEN Rejected("Body cannot be empty")
    ELSE IF s.raised THEN Raised("Failed to send message", s)
    ELSE LET r == send_message(to, subject, body, so)
         IN  IF r.result # NoMessage
             THEN [resp |-> [success |-> TRUE, message |-> "Email sent successfully",
                             message_id |-> r.result.id, to |-> to, subject |-> subject],
                   net |-> s.net \o r.net, entered |-> TRUE]
             ELSE [resp |-> Failure("Failed to send email"),
                   net |-> s.net \o r.net, entered |-> TRUE]

\* the "search criteria summary" of gmail_search_messages
Criteria(f) ==
    LET c == (IF Truthy(f.sender) THEN << "sender: " \o f.sender >> ELSE << >>)
             \o (IF Truthy(f.subject) THEN << "subject: " \o f.subject >> ELSE << >>)
             \o (IF Truthy(f.after_date) THEN << "after: " \o f.after_date >> ELSE << >>)
             \o (IF Truthy(f.before_date) THEN << "before: " \o f.before_date >> ELSE << >>)
             \o (IF f.has_attachment THEN << "has attachment" >> ELSE << >>)
             \o (IF f.is_unread THEN << "unread only" >> ELSE << >>)
    IN  IF c # << >> THEN c ELSE << "all messages" >>

\* gmail_search_messages: f holds the six filter parameters
gmail_search_messages(f, max_results, s, lo, gos) ==
    IF max_results < 1 \/ max_results > 100
    THEN Rejected("max_results must be between 1 and 100")
    ELSE IF s.raised THEN Raised("Failed to search messages", s)
    ELSE LET l == search_messages(f.sender, f.subject, f.after_date,
                                  f.has_attachment, f.is_unread, lo)
             messages == SubSeq(l.messages, 1, Min(max_results, Len(l.messages)))
             fetched == GetAll(messages, gos)
             detailed_messages == DetailedFound(messages, fetched)
         IN  IF l.messages = << >>
             THEN [resp |-> [success |-> TRUE, count |-> 0, messages |-> << >>,
                             message |-> "No messages found matching search criteria"],
                   net |-> s.net \o l.net, entered |-> TRUE]
             ELSE [resp |-> [success |-> TRUE, count |-> Len(detailed_messages),
                             messages |-> detailed_messages,
                             search_criteria |-> Criteria(f)],
                   net |-> s.net \o l.net \o Cat([i \in 1..Len(fetched) |-> fetched[i].net]),
                   entered |-> TRUE]

\* the loop "for msg_id in message_ids" of both batch tools: results[i] is
\* what the client operation did for the i-th ID
SuccessCount(results) == Cardinality({i \in 1..Len(results) : results[i].result})

\* failed_ids keeping only the first ID that failed
FailedIds_FirstOnly(message_ids, results) ==
    LET failed == { i \in 1..Len(message_ids) : ~results[i].result }
    IN  IF failed = {} THEN << >>
        ELSE << message_ids[CHOOSE i \in failed : \A j \in failed : i <= j] >>

FailedIds(message_ids, results) ==
    Cat([i \in 1..Len(message_ids) |->
            IF results[i].result THEN << >> ELSE << message_ids[i] >>])

InvalidIds(message_ids) ==
    SelectSeq(message_ids, LAMBDA m : ~validate_message_id(m))

\* the failed_ids field added to every batch result, also when it is empty
WithFailed_Always(result, failed_ids, extra) ==
    result @@ ("failed_ids" :> failed_ids) @@ extra

\* result["failed_ids"] = failed_ids, only "if failed_ids"
WithFailed(result, failed_ids, extra) ==
    IF failed_ids = << >> THEN result
    ELSE result @@ ("failed_ids" :> failed_ids) @@ extra

\* gmail_mark_as_read
gmail_mark_as_read(message_ids, s, oks) ==
    IF message_ids = << >> THEN Rejected("No message IDs provided")
    ELSE IF InvalidIds(message_ids) # << >> THEN Rejected("Invalid message IDs")
    ELSE IF s.raised THEN Raised("Failed to mark messages as read", s)
    ELSE LET results == [i \in 1..Len(message_ids) |-> mark_as_read(message_ids[i], oks[i])]
             success_count == SuccessCount(results)
             failed_ids == FailedIds(message_ids, results)
         IN  [resp |-> WithFailed([success |-> success_count > 0,
                                   marked_as_read |-> success_count,
                                   total_requested |-> Len(message_ids)],
                                  failed_ids, << >>),
              net |-> s.net \o Cat([i \in 1..Len(results) |-> results[i].net]),
              entered |-> TRUE]

\* gmail_delete_messages obtaining the client before it validates the IDs
gmail_delete_messages_ClientFirst(message_ids, s, oks) ==
    IF message_ids = << >> \/ InvalidIds(message_ids) # << >>
    THEN [resp |-> Failure("Invalid message IDs"), net |-> s.net, entered |-> TRUE]
    ELSE IF s.raised THEN Raised("Failed to delete messages", s)
    ELSE LET results == [i \in 1..Len(message_ids) |-> delete_message(message_ids[i], oks[i])]
             success_count == SuccessCount(results)
             failed_ids == FailedIds(message_ids, results)
         IN  [resp |-> WithFailed([success |-> success_count > 0,
                                   deleted |-> success_count,
                                   total_requested |-> Len(message_ids)],
                                  failed_ids,
                                  "warning" :> "Some messages could not be deleted"),
              net |-> s.net \o Cat([i \in 1..Len(results) |-> results[i].net]),
              entered |-> TRUE]

\* gmail_delete_messages
gmail_delete_messages(message_ids, s, oks) ==
    IF message_ids = << >> THEN Rejected("No message IDs provided")
    ELSE IF InvalidIds(message_ids) # << >> THEN Rejected("Invalid message IDs")
    ELSE IF s.raised THEN Raised("Failed to delete messages", s)
    ELSE LET results == [i \in 1..Len(message_ids) |-> delete_message(message_ids[i], oks[i])]
             success_count == SuccessCount(results)
             failed_ids == FailedIds(message_ids, results)
         IN  [resp |-> WithFailed([success |-> success_count > 0,
                                   deleted |-> success_count,
                                   total_requested |-> Len(message_ids)],
                                  failed_ids,
                                  "warning" :> "Some messages could not be deleted"),
              net |-> s.net \o Cat([i \in 1..Len(results) |-> results[i].net]),
              entered |-> TRUE]

\* the parameters GmailClient.search_messages declares
SearchParams == {"sender", "subject", "after_date", "has_attachment", "is_unread"}

\* gmail.search_messages(is_unread=True, max_results=100) inside gmail_get_stats:
\* Python binds the keywords to the declared parameters and raises TypeError
\* for one that is not declared
CountUnread(lo) ==
    IF {"is_unread", "max_results"} \subseteq SearchParams
    THEN LET l == search_messages(None, None, None, FALSE, TRUE, lo)
         IN  [unread_count |-> [type |-> "int", value |-> Len(l.messages)], net |-> l.net]
    ELSE [unread_count |-> [type |-> "str",
                            value |-> "Error counting unread: search_messages() got an unexpected keyword argument 'max_results'"],
          net |-> << >>]

\* gmail_get_stats: the profile is read through the global _gmail_service
\* (s.service after get_gmail_client has returned)
gmail_get_stats(include_unread, s, po, lo) ==
    IF s.raised THEN Raised("Failed to get stats", s)
    ELSE IF s.service = NoService
    THEN [resp |-> Failure("Failed to get stats: 'NoneType' object has no attribute 'users'"),
          net |-> s.net, entered |-> TRUE]
    ELSE IF ~po.ok
    THEN [resp |-> Failure("Failed to get stats: profile"),
          net |-> s.net \o << [op |-> "profile", ok |-> FALSE] >>, entered |-> TRUE]
    ELSE LET stats == [success |-> TRUE, email_address |-> po.profile.emailAddress,
                       total_messages |-> po.profile.messagesTotal]
             u == CountUnread(lo)
         IN  IF include_unread
             THEN [resp |-> stats @@ ("unread_count" :> u.unread_count),
                   net |-> s.net \o << [op |-> "profile", ok |-> TRUE] >> \o u.net,
                   entered |-> TRUE]
             ELSE [resp |-> stats,
                   net |-> s.net \o << [op |-> "profile", ok |-> TRUE] >>,
                   entered |-> TRUE]

\* gmail_send_message_with_attachment: exists is os.path.exists(file_path) at
\* validation, fo what the file system answers inside the client
gmail_send_message_with_attachment(to, subject, body, file_path, exists, s, fo, so) ==
    IF ~validate_email_address(to) THEN Rejected("Invalid recipient email address")
    ELSE IF Strip(subject) = << >> THEN Rejected("Subject cannot be empty")
    ELSE IF Strip(body) = << >> THEN Rejected("Body cannot be empty")
    ELSE IF ~exists THEN Rejected("File not found: " \o file_path)
    ELSE IF s.raised THEN Raised("Failed to send message with attachment", s)
    ELSE LET r == send_message_with_attachment(to, subject, body, file_path, fo, so)
         IN  IF r.result # NoMessage
             THEN [resp |-> [success |-> TRUE,
                             message |-> "Email with attachment sent successfully",
                             message_id |-> r.result.id, to |-> to, subject |-> subject,
                             attachment |-> file_path],
                   net |-> s.net \o r.net, entered |-> TRUE]
             ELSE [resp |-> Failure("Failed to send email with attachment"),
                   net |-> s.net \o r.net, entered |-> TRUE]

(***************************************************************************)
(* The environment: inputs of the tools and outcomes of the remote calls   *)
(***************************************************************************)
EnvKeys == {"GMAIL_CONNECTION_ID", "NANGO_NANGO_BASE_URL", "NANGO_NANGO_SECRET_KEY"}

\* the environments: every variable set, or one of them unset
Environments ==
    { e \in [EnvKeys -> BOOLEAN] : Cardinality({k \in EnvKeys : ~e[k]}) <= 1 }

\* a mapping with key k, or without it when opt is the empty sequence
Field(k, opt) == IF opt = << >> THEN << >> ELSE k :> opt[1]

\* the shapes of a broker response: each token location absent, empty or set
BrokerResponses ==
    { Field("access_token", a) @@ Field("credentials", c) @@ Field("token", t)
        @@ Field("refresh_token", r) :
        a \in {<< >>, <<"">>, <<"T1">>},
        c \in {<< >>, << << >> >>, << [access_token |-> "T2"] >>,
               << [access_token |-> "T2", refresh_token |-> "R2"] >>},
        t \in {<< >>, <<"">>, <<"T3">>},
        r \in {<< >>, <<"R1">>} }

Answers(responses) ==
    {[status |-> "http_error"], [status |-> "network_error"]}
    \cup {[status |-> "ok", body |-> r] : r \in responses}

SessionOutcomes(responses) == [broker : Answers(responses), valid : BOOLEAN, build : BOOLEAN]

\* the broker responses of the tool specification: the flat shape with a
\* refresh token, and a response without any token
SampleResponses ==
    { [access_token |-> "T1", refresh_token |-> "R1"], [connection_id |-> "c1"] }

\* a set drawn from only when the invocation gets to use the choice
Only(needed, S, unused) == IF needed THEN S ELSE {unused}

\* the outcome of a remote call that fails
Fails == [ok |-> FALSE]

MsgIds == {"m1", "m2"}
MsgIdInputs == {""} \cup MsgIds
Queries == {"", "is:unread"}
MaxResultsInputs == {0, 1, 100, 101}

PlainLeaf == [mimeType |-> "text/plain", body |-> [data |-> "SGk="]]
HtmlLeaf == [mimeType |-> "text/html", body |-> [data |-> "Qnll"]]
SamplePayloads ==
    { PlainLeaf,
      [mimeType |-> "multipart/alternative", parts |-> << HtmlLeaf, PlainLeaf >>],
      [mimeType |-> "multipart/mixed", parts |-> << HtmlLeaf >>] }

LabelSets == { {"INBOX"}, {"INBOX", "UNREAD"} }

\* messages as users().messages().get(format='full') returns them
FullMessages == { [labelIds |-> l, payload |-> p] : l \in LabelSets, p \in SamplePayloads }
ListedMessages == { [labelIds |-> {"INBOX", "UNREAD"}, payload |-> PlainLeaf] }

Refs == { [id |-> m] : m \in MsgIds }
ListOutcomes(n) ==
    {Fails} \cup {[ok |-> TRUE, messages |-> l] : l \in SeqsUpTo(Refs, Min(MaxList, n))}
GetOutcomes(M) == {Fails} \cup {[ok |-> TRUE, message |-> m] : m \in M}
SendOutcomes == {Fails, [ok |-> TRUE, message |-> [id |-> "s1"]]}
ProfileOutcomes ==
    {Fails,
     [ok |-> TRUE, profile |-> [emailAddress |-> "me@example.com", messagesTotal |-> 2]]}
FileOutcomes == [exists : BOOLEAN, readable : BOOLEAN]

Listed(lo) == IF lo.ok THEN Len(lo.messages) ELSE 0

Addresses ==
    { << >>, <<"a", ".", "c">>, <<"a", "@", "b">>, <<"a", "@", "b", ".", "c">> }
Texts == { << >>, <<" ">>, <<"h", "i">> }
Paths == { "/tmp/report.pdf" }

NoFilter ==
    [sender |-> None, subject |-> None, after_date |-> None, before_date |-> None,
     has_attachment |-> FALSE, is_unread |-> FALSE]

\* the filters of the tool specification
SampleFilters ==
    { NoFilter,
      [NoFilter EXCEPT !.before_date = "2024/01/01"],
      [NoFilter EXCEPT !.sender = "a@b.com", !.is_unread = TRUE],
      [sender |-> "a@b.com", subject |-> "hi", after_date |-> "2024/01/01",
       before_date |-> "2024/02/01", has_attachment |-> TRUE, is_unread |-> TRUE] }

(***************************************************************************)
(* The tool specification: one action per tool invocation                  *)
(***************************************************************************)
Session(o) == get_gmail_client(gmail_client, gmail_service, env, o)

\* the session outcomes an invocation can observe: none once the client is
\* memoized, when the connection id is unset or when validation rejects
Outcomes(passes) ==
    Only(passes /\ gmail_client = NoClient /\ env["GMAIL_CONNECTION_ID"],
         SessionOutcomes(SampleResponses),
         [broker |-> [status |-> "network_error"], valid |-> TRUE, build |-> TRUE])

\* what an invocation leaves behind: the globals as get_gmail_client set
\* them (when the tool called it) and the mapping returned
Return(tool, args, r, s) ==
    /\ call' = [tool |-> tool, args |-> args, entered |-> r.entered]
    /\ resp' = r.resp
    /\ net' = r.net
    /\ gmail_client' = IF r.entered THEN s.client ELSE gmail_client
    /\ gmail_service' = IF r.entered THEN s.service ELSE gmail_service
    /\ UNCHANGED <<env, arg, out, frames>>

ListMessages ==
    \E query \in Queries, max_results \in MaxResultsInputs :
    \E o \in Outcomes(max_results \in 1..100) :
    \E lo \in Only(~Session(o).raised, ListOutcomes(max_results), Fails) :
    \E gos \in [1..Listed(lo) -> GetOutcomes(ListedMessages)] :
        Return("list", [query |-> query, max_results |-> max_results],
               gmail_list_messages(query, max_results, Session(o), lo, gos), Session(o))

GetMessage ==
    \E message_id \in MsgIdInputs :
    \E o \in Outcomes(message_id # "") :
    \E go \in Only(~Session(o).raised, GetOutcomes(FullMessages), Fails) :
        Return("get", [message_id |-> message_id],
               gmail_get_message(message_id, Session(o), go), Session(o))

SendMessage ==
    \E to \in Addresses, subject \in Texts, body \in Texts :
    \E o \in Outcomes(to = <<"a", "@", "b", ".", "c">>) :
    \E so \in Only(~Session(o).raised, SendOutcomes, Fails) :
        Return("send", [to |-> to, subject |-> subject, body |-> body],
               gmail_send_message(to, subject, body, Session(o), so), Session(o))

SearchMessages(filters) ==
    \E f \in filters, max_results \in MaxResultsInputs :
    \E o \in Outcomes(max_results \in 1..100) :
    \E lo \in Only(~Session(o).raised, ListOutcomes(DefaultMaxResults), Fails) :
    \E gos \in [1..Min(Listed(lo), max_results) -> GetOutcomes(ListedMessages)] :
        Return("search", [filter |-> f, max_results |-> max_results],
               gmail_search_messages(f, max_results, Session(o), lo, gos), Session(o))

MarkAsRead ==
    \E message_ids \in SeqsUpTo(MsgIdInputs, MaxIds) :
    \E o \in Outcomes(message_ids \in Seq(MsgIds)) :
    \E oks \in Only(~Session(o).raised, [1..Len(message_ids) -> BOOLEAN],
                   [i \in 1..Len(message_ids) |-> FALSE]) :
        Return("mark_as_read", [message_ids |-> message_ids],
               gmail_mark_as_read(message_ids, Session(o), oks), Session(o))

DeleteMessages ==
    \E message_ids \in SeqsUpTo(MsgIdInputs, MaxIds) :
    \E o \in Outcomes(message_ids \in Seq(MsgIds)) :
    \E oks \in Only(~Session(o).raised, [1..Len(message_ids) -> BOOLEAN],
                   [i \in 1..Len(message_ids) |-> FALSE]) :
        Return("delete", [message_ids |-> message_ids],
               gmail_delete_messages(message_ids, Session(o), oks), Session(o))

GetStats ==
    \E include_unread \in BOOLEAN :
    \E o \in Outcomes(TRUE) :
    \E po \in Only(~Session(o).raised, ProfileOutcomes, Fails) :
    \E lo \in Only(~Session(o).raised /\ po.ok /\ include_unread,
                   ListOutcomes(DefaultMaxResults), Fails) :
        Return("stats", [include_unread |-> include_unread],
               gmail_get_stats(include_unread, Session(o), po, lo), Session(o))

SendWithAttachment ==
    \E to \in Addresses, subject \in Texts, body \in Texts, file_path \in Paths,
       exists \in BOOLEAN :
    \E o \in Outcomes(to = <<"a", "@", "b", ".", "c">> /\ exists) :
    \E fo \in Only(~Session(o).raised, FileOutcomes, [exists |-> FALSE, readable |-> FALSE]) :
    \E so \in Only(~Session(o).raised /\ fo.exists /\ fo.readable, SendOutcomes, Fails) :
        Return("send_with_attachment",
               [to |-> to, subject |-> subject, body |-> body, file_path |-> file_path,
                exists |-> exists],
               gmail_send_message_with_attachment(to, subject, body, file_path, exists,
                                                  Session(o), fo, so),
               Session(o))

Init ==
    /\ env \in Environments
    /\ gmail_client = NoClient
    /\ gmail_service = NoService
    /\ call = Idle
    /\ resp = << >>
    /\ net = << >>
    /\ arg = << >>
    /\ out = << >>
    /\ frames = << >>

Next ==
    \/ ListMessages
    \/ GetMessage
    \/ SendMessage
    \/ SearchMessages(SampleFilters)
    \/ MarkAsRead
    \/ DeleteMessages
    \/ GetStats
    \/ SendWithAttachment

Spec == Init /\ [][Next]_vars

(***************************************************************************)
(* Properties of the tool specification                                    *)
(***************************************************************************)
Returned == call # Idle
BatchTools == {"mark_as_read", "delete"}
Events(ops) == SelectSeq(net, LAMBDA ev : ev.op \in ops)
BrokerExchanges == Len(Events({"broker"}))

\* an address as the specification describes a valid one: an '@', and a '.'
\* somewhere after the first '@'
LooksValid(to) ==
    \E i \in 1..Len(to) : to[i] = "@" /\ \E j \in (i + 1)..Len(to) : to[j] = "."

Blank(text) == \A i \in 1..Len(text) : text[i] \in {" ", "\t", "\n"}

\* the inputs of the last invocation fail validation, by the rules of the
\* specification for that tool
InputsRejected ==
    CASE call.tool \in {"list", "search"} -> call.args.max_results \notin 1..100
      [] call.tool = "get" -> call.args.message_id = ""
      [] call.tool \in BatchTools ->
            \/ call.args.message_ids = << >>
            \/ \E i \in 1..Len(call.args.message_ids) : call.args.message_ids[i] = ""
      [] call.tool = "send" ->
            ~LooksValid(call.args.to) \/ Blank(call.args.subject) \/ Blank(call.args.body)
      [] call.tool = "send_with_attachment" ->
            \/ ~LooksValid(call.args.to) \/ Blank(call.args.subject) \/ Blank(call.args.body)
            \/ ~call.args.exists
      [] OTHER -> FALSE

IsFailure(r) == "success" \in DOMAIN r /\ r.success = FALSE /\ "error" \in DOMAIN r

\* C1 as stated: every invocation returns a mapping with a boolean success
\* field, and with an error field whenever success is false.
C1_EveryFailureHasError ==
    Returned =>
        /\ "success" \in DOMAIN resp
        /\ resp.success \in BOOLEAN
        /\ (resp.success = FALSE => "error" \in DOMAIN resp)

\* the last invocation was a batch in which the remote operation was attempted
\* for every ID and failed for every ID
BatchAllFailed ==
    /\ call.tool \in BatchTools
    /\ Len(Events({"modify", "delete"})) = Len(call.args.message_ids)
    /\ \A i \in 1..Len(net) : net[i].op \in {"modify", "delete"} => ~net[i].ok

\* C1 amended: every invocation returns a mapping with a boolean success
\* field; when success is false the mapping has an error field, except after
\* a batch in which every ID's remote operation failed, which returns
\* success false with the counts and failed_ids (all the IDs) and no error.
C1_FailureHasErrorUnlessBatchAllFailed ==
    Returned =>
        /\ "success" \in DOMAIN resp
        /\ resp.success \in BOOLEAN
        /\ (resp.success = FALSE /\ ~BatchAllFailed => "error" \in DOMAIN resp)
        /\ (resp.success = FALSE /\ BatchAllFailed /\ "error" \notin DOMAIN resp =>
                /\ "failed_ids" \in DOMAIN resp
                /\ resp.failed_ids = call.args.message_ids
                /\ resp.total_requested = Len(call.args.message_ids))

\* a remote call raised inside a tool and the tool returned the failure mapping
C1_Witness ==
    /\ call.tool = "stats"
    /\ \E i \in 1..Len(net) : net[i].op = "profile" /\ ~net[i].ok
    /\ IsFailure(resp)

\* C2: an invocation whose inputs fail validation returns the failure mapping
\* and makes no call at all: no broker exchange, no session initialization,
\* no mail-API operation.
C2_RejectedWithoutNetwork ==
    Returned /\ InputsRejected => IsFailure(resp) /\ net = << >>

\* a missing attachment in a process whose first valid call would reach the broker
C2_Witness ==
    /\ call.tool = "send_with_attachment"
    /\ ~call.args.exists
    /\ LooksValid(call.args.to) /\ ~Blank(call.args.subject) /\ ~Blank(call.args.body)
    /\ \A k \in EnvKeys : env[k]
    /\ gmail_client = NoClient
    /\ IsFailure(resp)

\* C3: in list, get, send and search, a failed remote mail-API call makes the
\* response a failure.
C3_RemoteFailureIsReported ==
    /\ call.tool \in {"list", "get", "send", "search"}
    /\ \E i \in 1..Len(net) : net[i].op \in {"list", "get", "send"} /\ ~net[i].ok
    => IsFailure(resp)

\* the IDs of the remote batch operations of the last invocation, and of the
\* failed ones, in the order they were made
AttemptedIds == [i \in 1..Len(Events({"modify", "delete"})) |-> Events({"modify", "delete"})[i].id]
FailedAttempts == SelectSeq(Events({"modify", "delete"}), LAMBDA ev : ~ev.ok)
FailedAttemptIds == [i \in 1..Len(FailedAttempts) |-> FailedAttempts[i].id]
BatchCount == IF call.tool = "delete" THEN "deleted" ELSE "marked_as_read"

BatchAccounting ==
    /\ AttemptedIds = call.args.message_ids
    /\ \A i \in 1..Len(net) : net[i].op \in {"modify", "delete"} =>
            net[i].op = (IF call.tool = "delete" THEN "delete" ELSE "modify")
    /\ BatchCount \in DOMAIN resp
    /\ resp[BatchCount] = Len(call.args.message_ids) - Len(FailedAttempts)
    /\ (IF "failed_ids" \in DOMAIN resp THEN resp.failed_ids ELSE << >>) = FailedAttemptIds

\* C4 as stated: once validation has passed, a batch attempts the remote
\* operation once per ID in list order, counts the successes and lists the
\* failed IDs.
C4_BatchAfterValidation ==
    call.tool \in BatchTools /\ ~InputsRejected => BatchAccounting

\* C4 amended: once validation has passed and session setup has yielded the
\* client, a batch attempts the remote operation once per ID in list order,
\* counts the successes and lists the failed IDs.
C4_BatchWithSession ==
    call.tool \in BatchTools /\ ~InputsRejected /\ gmail_client # NoClient => BatchAccounting

\* delete of [m1, m2] with m1 succeeding and m2 failing
C4_Witness ==
    /\ call.tool = "delete"
    /\ call.args.message_ids = <<"m1", "m2">>
    /\ Events({"delete"}) = << [op |-> "delete", id |-> "m1", ok |-> TRUE],
                               [op |-> "delete", id |-> "m2", ok |-> FALSE] >>
    /\ resp.success = TRUE /\ resp.deleted = 1 /\ resp.failed_ids = <<"m2">>

\* C5: the session is created lazily and once.  A step that reaches the
\* broker is an invocation that passed validation, and once the client is
\* memoized every step leaves both globals as they are and makes no broker
\* exchange and builds no service.
C5_LazyOnce ==
    [][ /\ (Len(SelectSeq(net', LAMBDA ev : ev.op \in {"broker", "build"})) > 0
              => call'.entered /\ ~InputsRejected')
        /\ (gmail_client # NoClient =>
              /\ gmail_client' = gmail_client
              /\ gmail_service' = gmail_service
              /\ gmail_client.service = gmail_service
              /\ Len(SelectSeq(net', LAMBDA ev : ev.op \in {"broker", "build"})) = 0) ]_vars

\* a later invocation that used the mail API through the memoized client
C5_Witness ==
    /\ gmail_client # NoClient
    /\ call.tool = "get" /\ call.entered
    /\ Len(net) = 1 /\ net[1].op = "get"

\* C6: one invocation makes at most one broker exchange, also when session
\* setup fails.
C6_AtMostOneExchange == BrokerExchanges <= 1

\* the session setup recorded in an event log succeeded: build() returned
SetupSucceeded(events) == \E i \in 1..Len(events) : events[i].op = "build" /\ events[i].ok
MailEvents(events) == SelectSeq(events, LAMBDA ev : ev.op \notin {"broker", "build"})

\* C14: a tool call that gets past validation while no client is memoized
\* attempts the session setup (a broker exchange when the environment is
\* complete), also right after a call whose setup failed; when the setup
\* fails the call returns the failure mapping, makes no mail-API call and
\* leaves both globals unset, so no failed or partial session is ever kept.
C14_FailedSetupIsRetried ==
    [][ call'.entered /\ gmail_client = NoClient =>
          /\ gmail_service = NoService
          /\ ((\A k \in EnvKeys : env[k]) =>
                Len(SelectSeq(net', LAMBDA ev : ev.op = "broker")) >= 1)
          /\ (~SetupSucceeded(net') =>
                /\ IsFailure(resp')
                /\ MailEvents(net') = << >>
                /\ gmail_client' = NoClient
                /\ gmail_service' = NoService) ]_vars

\* a call whose setup failed at the broker, both globals still unset
C14_Witness ==
    /\ call # Idle /\ call.entered
    /\ \E i \in 1..Len(net) : net[i].op = "broker" /\ ~net[i].ok
    /\ IsFailure(resp)
    /\ gmail_client = NoClient /\ gmail_service = NoService

\* the failure gmail_get_stats returns when it reads the profile through an
\* unset _gmail_service
UnsetServiceUsed ==
    /\ call.tool = "stats"
    /\ IsFailure(resp)
    /\ resp.error = "Failed to get stats: 'NoneType' object has no attribute 'users'"

\* C15: with invocations executed one at a time, between invocations the
\* memoized client is set exactly when the memoized service is set, the
\* service is the one the client wraps, and gmail_get_stats never reads an
\* unset service after get_gmail_client has returned: whenever it got past
\* get_gmail_client it made the profile call.
C15_ClientAndServiceSetTogether ==
    /\ (gmail_client # NoClient) <=> (gmail_service # NoService)
    /\ (gmail_client # NoClient => gmail_client.service = gmail_service)
    /\ ~UnsetServiceUsed
    /\ (call.tool = "stats" /\ gmail_client # NoClient => Len(Events({"profile"})) = 1)

\* gmail_get_stats read the profile through the service of the client that
\* an earlier invocation memoized
C15_Witness ==
    /\ call.tool = "stats"
    /\ gmail_client # NoClient
    /\ gmail_client.service = gmail_service
    /\ net = << [op |-> "profile", ok |-> TRUE] >>
    /\ resp.success = TRUE

RECURSIVE IsSubsequence(_, _)
\* s is t with some elements left out, the rest in the order of t
IsSubsequence(s, t) ==
    IF s = << >> THEN TRUE
    ELSE IF t = << >> THEN FALSE
    ELSE IF Head(s) = Head(t) THEN IsSubsequence(Tail(s), Tail(t))
    ELSE IsSubsequence(s, Tail(t))

\* the batch response: the success count plus the number of failed IDs is
\* total_requested, the length of the input; failed_ids keeps the input
\* order (the IDs whose remote operation failed, in that order) and is
\* present only when an ID failed; success is true exactly when an ID
\* succeeded
BatchResponseInvariants ==
    LET ids == call.args.message_ids
        failed == IF "failed_ids" \in DOMAIN resp THEN resp.failed_ids ELSE << >>
    IN  /\ {BatchCount, "total_requested", "success"} \subseteq DOMAIN resp
        /\ resp[BatchCount] + Len(failed) = resp.total_requested
        /\ resp.total_requested = Len(ids)
        /\ IsSubsequence(failed, ids)
        /\ failed = FailedAttemptIds
        /\ ("failed_ids" \in DOMAIN resp <=> resp[BatchCount] < Len(ids))
        /\ ("failed_ids" \in DOMAIN resp => resp.failed_ids # << >>)
        /\ (resp.success <=> resp[BatchCount] > 0)

\* C16 as stated: the response of every batch call that passes validation
\* satisfies the batch response invariants.
C16_BatchResponse ==
    call.tool \in BatchTools /\ ~InputsRejected => BatchResponseInvariants

\* C16 amended: the response of every batch call that passes validation and
\* obtains the client satisfies the batch response invariants; a batch in
\* which every ID fails returns success false.
C16_BatchResponseWithSession ==
    call.tool \in BatchTools /\ ~InputsRejected /\ gmail_client # NoClient =>
        /\ BatchResponseInvariants
        /\ (BatchAllFailed => resp.success = FALSE)

\* mark-as-read of [m1, m2] with both remote calls failing
C16_Witness ==
    /\ call.tool = "mark_as_read"
    /\ call.args.message_ids = <<"m1", "m2">>
    /\ Len(FailedAttempts) = 2
    /\ resp = [success |-> FALSE, marked_as_read |-> 0, total_requested |-> 2,
               failed_ids |-> <<"m1", "m2">>]

\* C11: when include_unread is true and the profile call succeeds,
\* gmail_get_stats returns success true with unread_count an integer, the
\* number of messages the unread search (one list call for is:unread) returned.
C11_UnreadCountIsCount ==
    /\ call.tool = "stats"
    /\ call.args.include_unread
    /\ \E i \in 1..Len(net) : net[i].op = "profile" /\ net[i].ok
    => /\ resp.success = TRUE
       /\ "unread_count" \in DOMAIN resp
       /\ resp.unread_count.type = "int"
       /\ Len(Events({"list"})) = 1
       /\ Events({"list"})[1].q = "is:unread"
       /\ resp.unread_count.value = Events({"list"})[1].returned

\* C8: a session set up with a credential that is not valid and has a refresh
\* token refreshed the token before building the service.
C8_RefreshBeforeBuild ==
    /\ gmail_service # NoService
    /\ ~gmail_service.valid
    /\ Truthy(gmail_service.refresh_token)
    /\ \E j \in 1..Len(net) : net[j].op = "build"
    => \E i, j \in 1..Len(net) : i < j /\ net[i].op = "refresh" /\ net[j].op = "build"

(***************************************************************************)
(* Session setup on every shape of broker response                         *)
(***************************************************************************)
Unused == << >>

\* a process about to set up its session: arg holds the environment and what
\* the broker, the token and build() will do
InitAuth ==
    /\ arg \in [e : Environments, o : SessionOutcomes(BrokerResponses)]
    /\ out = Unused
    /\ env = arg.e
    /\ gmail_client = NoClient
    /\ gmail_service = NoService
    /\ call = Idle
    /\ resp = << >>
    /\ net = << >>
    /\ frames = << >>

\* authenticate_gmail_with_nango_v2(connection_id, provider_config_key)
Authenticate ==
    /\ out = Unused
    /\ out' = << authenticate_gmail_with_nango_v2(arg.e, arg.o) >>
    /\ net' = out'[1].net
    /\ UNCHANGED <<env, gmail_client, gmail_service, call, resp, arg, frames>>

NextAuth == Authenticate

SpecAuth == InitAuth /\ [][NextAuth]_vars

\* the tokens at the three locations of a broker response, in search order;
\* None where the location is absent
TokenLocations(r) ==
    << Get(r, "access_token"),
       IF "credentials" \in DOMAIN r THEN Get(r.credentials, "access_token") ELSE None,
       Get(r, "token") >>

\* C7: when the broker answered and the service could be built, the credential
\* holds the token of the first of the three locations that has a non-empty
\* one, and setup fails only when none has.
C7_FirstTokenWins ==
    out # Unused /\ (\A k \in EnvKeys : arg.e[k]) /\ arg.o.broker.status = "ok" /\ arg.o.build =>
        LET locs == TokenLocations(arg.o.broker.body)
            found == { i \in 1..3 : Truthy(locs[i]) }
        IN  IF found = {}
            THEN out[1].raised
            ELSE /\ ~out[1].raised
                 /\ out[1].service.token = locs[CHOOSE i \in found : \A j \in found : i <= j]

(***************************************************************************)
(* Email validation on every string over a small alphabet                  *)
(***************************************************************************)
EmailAlphabet == {"a", "@", "."}

\* the addresses the specification names, and every string of up to
\* MaxEmailLen characters of the alphabet
EmailInputs ==
    SeqsUpTo(EmailAlphabet, MaxEmailLen)
    \cup { <<"a", "@", "b", ".", "c", "o", "m">>, <<"a", ".", "c", "o", "m">>,
           <<"a", "@", "b">>, <<"a", "@", "b", "@", "c", ".", "d">>,
           <<"a", "@", "b", ".", "c", "@", "d">> }

InitEmail ==
    /\ arg \in EmailInputs
    /\ out = Unused
    /\ env = [k \in EnvKeys |-> TRUE]
    /\ gmail_client = NoClient
    /\ gmail_service = NoService
    /\ call = Idle
    /\ resp = << >>
    /\ net = << >>
    /\ frames = << >>

\* validate_email_address(arg)
ValidateEmail ==
    /\ out = Unused
    /\ out' = << validate_email_address(arg) >>
    /\ UNCHANGED <<env, gmail_client, gmail_service, call, resp, net, arg, frames>>

NextEmail == ValidateEmail

SpecEmail == InitEmail /\ [][NextEmail]_vars

\* the domain part of an address: the text after its first '@'
DomainPart(s) ==
    LET k == CHOOSE i \in 1..Len(s) : s[i] = "@" /\ \A j \in 1..(i - 1) : s[j] # "@"
    IN  SubSeq(s, k + 1, Len(s))

HasChar(s, c) == c \in { s[i] : i \in 1..Len(s) }

\* C12: email validation accepts an address exactly when it contains '@' and
\* its domain part, the text after the '@', contains a '.'; so it accepts
\* a@b.com and rejects a.com, a@b and the empty string.
C12_AcceptsExactlyAtWithDottedDomain ==
    out # Unused =>
        /\ out[1] = (HasChar(arg, "@") /\ HasChar(DomainPart(arg), "."))
        /\ (arg = <<"a", "@", "b", ".", "c", "o", "m">> => out[1])
        /\ (arg \in { << >>, <<"a", ".", "c", "o", "m">>, <<"a", "@", "b">> } => ~out[1])

(***************************************************************************)
(* The search tool on every filter                                         *)
(***************************************************************************)
OptStr(S) == {None, ""} \cup S

AllFilters ==
    [sender : OptStr({"a@b.com"}), subject : OptStr({"hi"}),
     after_date : OptStr({"2024/01/01"}), before_date : {None, "2024/02/01"},
     has_attachment : BOOLEAN, is_unread : BOOLEAN]

\* a fresh process with every variable set; arg is the filter of the search
InitQuery ==
    /\ arg \in AllFilters
    /\ out = Unused
    /\ env = [k \in EnvKeys |-> TRUE]
    /\ gmail_client = NoClient
    /\ gmail_service = NoService
    /\ call = Idle
    /\ resp = << >>
    /\ net = << >>
    /\ frames = << >>

\* gmail_search_messages(**arg, max_results)
Search == call = Idle /\ SearchMessages({arg})

NextQuery == Search

SpecQuery == InitQuery /\ [][NextQuery]_vars

Active(v) == v # None /\ v # ""

\* the clause of each field of a filter, in the order of the specification;
\* the empty string for a field that is not active
Clauses(f) ==
    << IF Active(f.sender) THEN "from:" \o f.sender ELSE "",
       IF Active(f.subject) THEN "subject:\"" \o f.subject \o "\"" ELSE "",
       IF Active(f.after_date) THEN "after:" \o f.after_date ELSE "",
       IF f.has_attachment THEN "has:attachment" ELSE "",
       IF f.is_unread THEN "is:unread" ELSE "" >>

RECURSIVE SpaceJoined(_)
\* the non-empty strings of cs, each but the first preceded by one space
SpaceJoined(cs) ==
    IF cs = << >> THEN ""
    ELSE LET rest == SpaceJoined(SubSeq(cs, 1, Len(cs) - 1))
             last == cs[Len(cs)]
         IN  IF last = "" THEN rest
             ELSE IF rest = "" THEN last
             ELSE rest \o " " \o last

LeafParts ==
    { PlainLeaf, HtmlLeaf,
      [mimeType |-> "text/plain", body |-> [size |-> 0]],
      [mimeType |-> "text/plain", body |-> [data |-> ""]] }

\* parts with children (possibly none), and one tagged text/plain that carries
\* both inline data and children
NestedParts ==
    { [mimeType |-> "multipart/alternative", parts |-> ps] : ps \in SeqsUpTo(LeafParts, MaxParts) }
    \cup { [mimeType |-> "text/plain", body |-> [data |-> "Qnll"], parts |-> << PlainLeaf >>] }

Parts == LeafParts \cup NestedParts

\* payloads: a single part, or a multipart root with one or two children
Payloads ==
    Parts \cup { [mimeType |-> "multipart/mixed", parts |-> ps] :
                    ps \in { << a >> : a \in Parts } \cup (Parts \X Parts) }

InitBody ==
    /\ arg \in { [id |-> "m1", payload |-> t] : t \in Payloads } \cup { [id |-> "m1"] }
    /\ out = Unused
    /\ env = [k \in EnvKeys |-> TRUE]
    /\ gmail_client = NoClient
    /\ gmail_service = NoService
    /\ call = Idle
    /\ resp = << >>
    /\ net = << >>
    /\ frames = << >>

\* GmailClient.get_message_body(arg)
ExtractBody ==
    /\ out = Unused
    /\ out' = << get_message_body(arg) >>
    /\ UNCHANGED <<env, gmail_client, gmail_service, call, resp, net, arg, frames>>

NextBody == ExtractBody

SpecBody == InitBody /\ [][NextBody]_vars

PlainWithData(n) ==
    n.mimeType = "text/plain" /\ "body" \in DOMAIN n /\ "data" \in DOMAIN n.body

RECURSIVE Walk(_)
\* what child c contributes to the scan of its parent: << text >> when the
\* scan stops at c with that text, << >> when the scan moves on
Contribution(c) ==
    IF PlainWithData(c) THEN << B64Decode(c.body.data) >>
    ELSE IF "parts" \in DOMAIN c /\ Walk(c) # "" THEN << Walk(c) >>
    ELSE << >>

\* the depth-first, first-match-wins walk of the specification
Walk(n) ==
    IF "parts" \in DOMAIN n
    THEN LET stops == { i \in 1..Len(n.parts) : Contribution(n.parts[i]) # << >> }
         IN  IF stops = {} THEN ""
             ELSE Contribution(n.parts[CHOOSE i \in stops : \A j \in stops : i <= j])[1]
    ELSE IF PlainWithData(n) THEN B64Decode(n.body.data)
    ELSE ""

RECURSIVE AnyPlainWithData(_)
AnyPlainWithData(n) ==
    \/ PlainWithData(n)
    \/ "parts" \in DOMAIN n /\ \E i \in 1..Len(n.parts) : AnyPlainWithData(n.parts[i])

\* C10: body extraction returns the result of the depth-first,
\* first-match-wins walk of the payload, and the empty string when the tree
\* holds no text/plain part with data.
C10_BodyIsFirstMatch ==
    out # Unused /\ "payload" \in DOMAIN arg =>
        /\ out[1] = Walk(arg.payload)
        /\ (~AnyPlainWithData(arg.payload) => out[1] = "")

\* the plain-text part is the second child of the first child of the root
C10_Witness ==
    /\ out = << "Hi" >>
    /\ "payload" \in DOMAIN arg
    /\ arg.payload.parts
         = << [mimeType |-> "multipart/alternative", parts |-> << HtmlLeaf, PlainLeaf >>],
              HtmlLeaf >>

(***************************************************************************)
(* get_gmail_client under concurrent invocations.  Each invocation runs    *)
(* the function once, one step per access to a global: the load of         *)
(* _gmail_client for the "is None" test, the branch with the blocking      *)
(* session setup, the store to _gmail_service, the construction of the     *)
(* client from the global _gmail_service, the store to _gmail_client and   *)
(* the load for the return.  The runtime may switch between invocations    *)
(* after any step; the code takes no lock.                                 *)
(***************************************************************************)
Invocations == 1..MaxInvocations

\* the locals of an invocation that has not started
NewFrame ==
    [pc |-> "load", seen |-> NoClient, service |-> NoService, client |-> NoClient,
     result |-> NoClient]

InitRace ==
    /\ env \in Environments
    /\ gmail_client = NoClient
    /\ gmail_service = NoService
    /\ frames = [p \in Invocations |-> NewFrame]
    /\ net = << >>
    /\ call = Idle
    /\ resp = << >>
    /\ arg = << >>
    /\ out = << >>

\* the events of invocation p
By(p, events) == [i \in 1..Len(events) |-> events[i] @@ ("by" :> p)]

\* the test re-reading the global when the branch is taken
ClientTest_Fresh(p) == gmail_client = NoClient

\* "if _gmail_client is None", on the value loaded for the test
ClientTest(p) == frames[p].seen = NoClient

\* the load of _gmail_client for the test
LoadClient(p) ==
    /\ frames[p].pc = "load"
    /\ frames' = [frames EXCEPT ![p].seen = gmail_client, ![p].pc = "branch"]
    /\ UNCHANGED <<env, gmail_client, gmail_service, call, resp, net, arg, out>>

\* the test found a client: on to "return _gmail_client"
SkipInitialize(p) ==
    /\ frames[p].pc = "branch"
    /\ ~ClientTest(p)
    /\ frames' = [frames EXCEPT ![p].pc = "return"]
    /\ UNCHANGED <<env, gmail_client, gmail_service, call, resp, net, arg, out>>

\* the test found None: getenv, the ValueError for a missing connection id,
\* and the blocking call of authenticate_gmail_with_nango_v2
Initialize(p) ==
    /\ frames[p].pc = "branch"
    /\ ClientTest(p)
    /\ \E o \in Only(env["GMAIL_CONNECTION_ID"], SessionOutcomes(SampleResponses),
                     [broker |-> [status |-> "network_error"], valid |-> TRUE, build |-> TRUE]) :
         LET a == authenticate_gmail_with_nango_v2(env, o)
         IN  IF ~env["GMAIL_CONNECTION_ID"]
             THEN /\ frames' = [frames EXCEPT ![p].pc = "raised"]
                  /\ net' = net
             ELSE IF a.raised
             THEN /\ frames' = [frames EXCEPT ![p].pc = "raised"]
                  /\ net' = net \o By(p, a.net)
             ELSE /\ frames' = [frames EXCEPT ![p].service = a.service,
                                              ![p].pc = "store_service"]
                  /\ net' = net \o By(p, a.net)
    /\ UNCHANGED <<env, gmail_client, gmail_service, call, resp, arg, out>>

\* _gmail_service = <the service authenticate returned>
StoreService(p) ==
    /\ frames[p].pc = "store_service"
    /\ gmail_service' = frames[p].service
    /\ frames' = [frames EXCEPT ![p].pc = "construct"]
    /\ UNCHANGED <<env, gmail_client, call, resp, net, arg, out>>

\* GmailClient(_gmail_service): the global is read again
Construct(p) ==
    /\ frames[p].pc = "construct"
    /\ frames' = [frames EXCEPT ![p].client = GmailClient(gmail_service),
                                ![p].pc = "store_client"]
    /\ UNCHANGED <<env, gmail_client, gmail_service, call, resp, net, arg, out>>

\* _gmail_client = <the client constructed>
StoreClient(p) ==
    /\ frames[p].pc = "store_client"
    /\ gmail_client' = frames[p].client
    /\ frames' = [frames EXCEPT ![p].pc = "return"]
    /\ UNCHANGED <<env, gmail_service, call, resp, net, arg, out>>

\* return _gmail_client
ReturnClient(p) ==
    /\ frames[p].pc = "return"
    /\ frames' = [frames EXCEPT ![p].result = gmail_client, ![p].pc = "done"]
    /\ UNCHANGED <<env, gmail_client, gmail_service, call, resp, net, arg, out>>

NextRace ==
    \E p \in Invocations :
        \/ LoadClient(p)
        \/ SkipInitialize(p)
        \/ Initialize(p)
        \/ StoreService(p)
        \/ Construct(p)
        \/ StoreClient(p)
        \/ ReturnClient(p)

SpecRace == InitRace /\ [][NextRace]_vars

\* the invocations that constructed a client, and the broker exchanges made
Creators == { p \in Invocations : frames[p].client # NoClient }
ExchangesBy(p) == Len(SelectSeq(net, LAMBDA ev : ev.op = "broker" /\ ev.by = p))

\* C13: concurrent invocations can create the session more than once.  Every
\* invocation that loaded an unset client for its test and returned has made
\* its own broker exchange and constructed its own client, whatever the
\* other invocations stored in the meantime; nothing limits the creators to
\* one (the witness is a state with two).
C13_StaleTestCreates ==
    \A p \in Invocations :
        frames[p].pc = "done" /\ frames[p].seen = NoClient =>
            /\ p \in Creators
            /\ ExchangesBy(p) = 1
            /\ \E i \in 1..Len(net) : net[i].op = "build" /\ net[i].by = p /\ net[i].ok

\* both invocations returned, each after its own broker exchange and its own
\* client construction
C13_Witness ==
    /\ \A p \in Invocations : frames[p].pc = "done"
    /\ Cardinality(Creators) > 1
    /\ Len(Events({"broker"})) > 1

====
